---- MODULE Spec2Model ----
(***************************************************************************)
(* PaperPay: the grant ledger, the process-payment pipeline, the payment   *)
(* session cache and the instant-pay interaction-hash check.               *)
(*                                                                         *)
(* A handler is split at the awaits between which it reads or writes the   *)
(* shared stores, so that another request can run in between; a handler    *)
(* that touches the shared stores at one point only is one step.  An       *)
(* awaited external call either returns or throws.  The repository holds   *)
(* three programs, each with its own specification: the vendor-facing      *)
(* server (the first half of server.ts), the customer-facing server (its   *)
(* second half) and the instant-pay class of src/server/cache.ts.          *)
(***************************************************************************)
EXTENDS Integers, Sequences, FiniteSets, TLC

\* ------------------------------------------------------------------ bounds
MaxGrants == 2
MaxPayments == 2
MaxRequests == 4
MaxCalls == 3

\* ------------------------------------------------------- program constants
\* expires.setDate(expires.getDate() + 30); expirationDays = 30
ExpiryDays == 30

\* const expiry = new Date(Date.now() + 3 * 60 * 1000)
SessionMinutes == 3
\* this.cache.set(clientIdentifier, {...}, 300)
CacheTtlSeconds == 300

\* the clock counts minutes
GrantLifetime == ExpiryDays * 24 * 60
CacheLifetime == CacheTtlSeconds \div 60

\* ------------------------------------------------------------------ inputs
Slots == {"s1", "s2"}
CustomerInputs == {"customer1", "customer2", "nobody"}
\* "" stands for a missing vendorId
VendorInputs == {"vendor1", "nobody", ""}
\* 0 stands for a missing (falsy) amount
LimitInputs == {-1, 0, 2}
DayInputs == {ExpiryDays}
AmountInputs == {0, 2, 3}
RefInputs == {"none", "r1"}
\* time passes to a minute beyond a grant's lifetime
LedgerSteps == {GrantLifetime + 1}
ResultInputs == {"grant_approved", "grant_rejected"}
\* "" stands for a missing clientSessionId
SessionInputs == {"", "a", "b"}
SessionSteps == {SessionMinutes, SessionMinutes + 1}
TokenInputs == {1}
\* strings that are concatenated are sequences of characters
NonceInputs == {<<"a">>, <<"b">>}
\* the nonce the authorization server puts in interact.finish
ServerNonces == {<<"b">>}
InteractRefInputs == {<<"a">>, <<"b", "\n", "a">>}
WalletInputs == {"alice", "bob"}
Identifiers == {"id1", "id2"}

NoRef == "none"
NoToken == 0
GrantIds == 1..MaxGrants

VARIABLES
    customers,                        \* the ids in the customers Map
    grants,                           \* the grants Map, in insertion order
    outgoingpaymentgrantaccessToken,  \* the module-level token slot
    outgoingPayments,                 \* outgoing payments created at the resource server
    slots,                            \* the requests in flight, one per slot
    continueCalls,                    \* the grant.continue calls made: <<token, interact_ref>>
    served,                           \* the number of requests received
    now,                              \* the clock, in minutes
    quoteCache,                       \* the payment sessions, by clientSessionId
    consumed,                         \* the sessions approved and not started again since
    cache,                            \* the instant-pay Cache, by client identifier
    result,                           \* the outcome of the last instant-pay call
    verifiedCalls,                    \* the <<token, interact_ref>> whose hash was verified
    signed,                           \* the QR data the server has signed
    verification,                     \* the last QR verification: what was presented, what was returned
    transfer,                         \* the last transfer's inputs and the requests made for it
    callback                          \* the last answer of GET /api/grants/callback

ledgerVars == <<customers, grants, outgoingpaymentgrantaccessToken>>
sessionVars == <<quoteCache, consumed>>
instantVars == <<cache, result, verifiedCalls>>
qrVars == <<signed, verification>>

vars ==
    <<customers, grants, outgoingpaymentgrantaccessToken, outgoingPayments, slots, continueCalls,
      served, now, quoteCache, consumed, cache, result, verifiedCalls, signed, verification,
      transfer, callback>>

\* -------------------------------------------------------------- the stores
\* the vendor both servers seed; requests name it or an unknown one
vendors == {"vendor1"}

Idle ==
    [kind |-> "none", pc |-> "idle", status |-> 0, error |-> "",
     customerId |-> "", vendorId |-> "", limit |-> 0, days |-> 0,
     token |-> NoToken, amount |-> 0,
     sid |-> "", ref |-> NoRef, quoteId |-> 0, receivedAt |-> 0, grant |-> "none",
     steps |-> <<>>]

Free(s) == slots[s].pc \in {"idle", "done"}

InFlight(s) == ~Free(s)

\* a request is served in the first slot that holds no request in flight
Takes(s) ==
    /\ served < MaxRequests
    /\ served' = served + 1
    /\ Free(s) /\ (s = "s2" => InFlight("s1"))

\* the response leaves; the slot keeps its status and message
Done(r, code, msg) ==
    [Idle EXCEPT !.kind = r.kind, !.pc = "done", !.status = code, !.error = msg,
                 !.sid = r.sid, !.grant = r.grant,
                 !.steps = r.steps]

\* what an authorization server answers to a grant request: a grant awaiting
\* interaction, or a grant with its access token
GrantAnswers == {"pending", "direct"}

\* isPendingGrant of @interledger/open-payments: the answer carries interact
isPendingGrant(grant) == grant = "pending"

\* a step of a transfer: a grant request with the answer it got, or a resource
\* created at the resource server
GrantStep(type, answer) == [step |-> "grant", type |-> type, answer |-> answer]

CreateStep(type) == [step |-> "create", type |-> type, answer |-> "none"]

\* the step of a transfer that obtains the token of its outgoing payment:
\* grant.continue ("continue") or token.rotate ("rotate")
TokenStep(call) == [step |-> call, type |-> "token", answer |-> "none"]

Respond(s, code, msg) == [slots EXCEPT ![s] = Done(slots[s], code, msg)]

Indices == 1..Len(grants)

UsedIds == {grants[i].id : i \in Indices}

\* grants.values().find(g => customerId, vendorId match and status === 'active')
existingGrant(c, v) ==
    \E i \in Indices :
        /\ grants[i].customerId = c
        /\ grants[i].vendorId = v
        /\ grants[i].status = "active"

\* the record both grant-creating endpoints store; the continuation token of the
\* pending grant is unique to it and is named after the grant.  approved is not
\* a field of the stored record: it tells whether the user has approved this
\* grant's interaction at the authorization server.
NewGrant(id, c, v, limit, days) ==
    [id |-> id, customerId |-> c, vendorId |-> v, dailyLimit |-> limit,
     spentToday |-> 0, expiresAt |-> now + days * 24 * 60, interactRef |-> NoRef,
     status |-> "active", token |-> id, approved |-> FALSE]

\* ------------------------------------------------------------ POST /api/customers
\* uuidv4(): an id never used before, the first of them
CustomerIds == {"customer1", "customer2"}

FreshCustomerId ==
    IF "customer1" \notin customers THEN {"customer1"}
    ELSE IF "customer2" \notin customers THEN {"customer2"}
    ELSE {}

\* the handler is synchronous: validation, then customers.set
CreateCustomer(s) ==
    /\ Takes(s)
    /\ LET req == [Idle EXCEPT !.kind = "customer"]
       IN  \/ /\ slots' = [slots EXCEPT ![s] =
                        Done(req, 400, "Name and wallet address are required")]
              /\ UNCHANGED customers
           \/ \E customerId \in FreshCustomerId :
                /\ customers' = customers \cup {customerId}
                /\ slots' = [slots EXCEPT ![s] = Done(req, 201, "")]
    /\ UNCHANGED <<grants, outgoingpaymentgrantaccessToken, outgoingPayments, continueCalls, now, sessionVars, instantVars, qrVars, transfer, callback>>

\* --------------------------------------- POST /api/customers/:customerId/grants
\* the checks before the first await, in the handler's order; a refused request
\* keeps the vendorId it named
GrantsValidate(c, v, limit) ==
    IF c \notin customers THEN <<404, "Customer not found">>
    ELSE IF v \notin vendors THEN <<404, "Vendor not found">>
    ELSE IF limit = 0 \/ limit <= 0 THEN <<400, "Valid daily limit is required">>
    ELSE IF existingGrant(c, v) THEN <<400, "Active grant already exists for this vendor">>
    ELSE <<0, "">>

GrantsBegin(s) ==
    /\ Takes(s)
    /\ \E c \in CustomerInputs, v \in VendorInputs, limit \in LimitInputs, days \in DayInputs :
        LET r == GrantsValidate(c, v, limit)
            req == [Idle EXCEPT !.kind = "grants", !.customerId = c, !.vendorId = v,
                                !.limit = limit, !.days = days]
        IN  slots' = [slots EXCEPT ![s] =
                IF r[1] # 0
                THEN [Done(req, r[1], r[2]) EXCEPT !.vendorId = v]
                ELSE [req EXCEPT !.pc = "grant"]]
    /\ UNCHANGED <<customers, grants, outgoingpaymentgrantaccessToken, outgoingPayments, continueCalls, now, sessionVars, instantVars, qrVars, transfer, callback>>

\* a request for an interactive grant that takes whatever is answered
requestGrantUnchecked(grant) == TRUE

\* createOutgoingPaymentPendingGrant, after client.grant.request has answered:
\* TRUE when it returns the grant, FALSE when it throws "Expected interactive
\* grant"
createOutgoingPaymentPendingGrant(grant) == ~(~isPendingGrant(grant))

\* the awaited createOutgoingPaymentPendingGrant returns a pending grant
GrantsStore(s) ==
    /\ slots[s].kind = "grants" /\ slots[s].pc = "grant"
    /\ Len(grants) < MaxGrants
    /\ \E id \in GrantIds \ UsedIds, answer \in GrantAnswers :
        /\ createOutgoingPaymentPendingGrant(answer)
        /\ grants' = Append(grants, NewGrant(id, slots[s].customerId, slots[s].vendorId,
                                             slots[s].limit, slots[s].days))
        /\ slots' = [slots EXCEPT ![s] = Done([@ EXCEPT !.grant = answer], 201, "")]
    /\ UNCHANGED <<customers, served, outgoingpaymentgrantaccessToken, outgoingPayments, continueCalls, now, sessionVars, instantVars, qrVars, transfer, callback>>

\* the authorization server answers with a grant that is not pending:
\* createOutgoingPaymentPendingGrant throws and the catch answers 500
GrantsRefuse(s) ==
    /\ slots[s].kind = "grants" /\ slots[s].pc = "grant"
    /\ \E answer \in GrantAnswers :
        /\ ~createOutgoingPaymentPendingGrant(answer)
        /\ slots' = [slots EXCEPT ![s] =
                Done([@ EXCEPT !.grant = answer], 500, "Failed to create grant")]
    /\ UNCHANGED <<customers, served, grants, outgoingpaymentgrantaccessToken, outgoingPayments, continueCalls, now, sessionVars, instantVars, qrVars, transfer, callback>>

\* a handler that stores the grant although the grant request threw
GrantsFailStores(s) ==
    /\ slots[s].kind = "grants" /\ slots[s].pc = "grant"
    /\ Len(grants) < MaxGrants
    /\ \E id \in GrantIds \ UsedIds :
        grants' = Append(grants, NewGrant(id, slots[s].customerId, slots[s].vendorId,
                                          slots[s].limit, slots[s].days))
    /\ slots' = [slots EXCEPT ![s] = Done([@ EXCEPT !.grant = "threw"], 500,
                                          "Failed to create grant")]
    /\ UNCHANGED <<customers, served, outgoingpaymentgrantaccessToken, outgoingPayments, continueCalls, now, sessionVars, instantVars, qrVars, transfer, callback>>

\* the grant request, or an awaited call before it, throws or times out: the
\* catch answers 500
GrantsFail(s) ==
    /\ slots[s].kind = "grants" /\ slots[s].pc = "grant"
    /\ slots' = [slots EXCEPT ![s] = Done([@ EXCEPT !.grant = "threw"], 500,
                                          "Failed to create grant")]
    /\ UNCHANGED <<customers, served, grants, outgoingpaymentgrantaccessToken, outgoingPayments, continueCalls, now, sessionVars, instantVars, qrVars, transfer, callback>>

\* ------------------------------ POST /api/customers/:customerId/authorize-vendor
AuthorizeValidate(c, v, limit) ==
    IF v = "" \/ limit = 0 THEN <<400, "Validation failed">>
    ELSE IF c \notin customers THEN <<404, "Customer not found">>
    ELSE IF v \notin vendors THEN <<404, "Vendor not found">>
    ELSE <<0, "">>

\* The handler reads no shared state and writes it once, in grants.set after its
\* last await: the whole handler is one step.  The awaited calls return a pending
\* grant, or one of them throws.
AuthorizeVendor(s) ==
    /\ Takes(s)
    /\ \E c \in CustomerInputs, v \in VendorInputs, limit \in LimitInputs :
        LET r == AuthorizeValidate(c, v, limit)
            req == [Idle EXCEPT !.kind = "authorize"]
        IN  \/ /\ r[1] # 0
               /\ slots' = [slots EXCEPT ![s] = Done(req, r[1], r[2])]
               /\ UNCHANGED grants
            \/ /\ r[1] = 0
               /\ Len(grants) < MaxGrants
               /\ \E id \in {Len(grants) + 1} :
                    grants' = Append(grants, NewGrant(id, c, v, limit, ExpiryDays))
               /\ slots' = [slots EXCEPT ![s] = Done(req, 201, "")]
            \/ /\ r[1] = 0
               /\ slots' = [slots EXCEPT ![s] =
                        Done([req EXCEPT !.grant = "threw"], 500, "Failed to authorize vendor")]
               /\ UNCHANGED grants
    /\ UNCHANGED <<customers, outgoingpaymentgrantaccessToken, outgoingPayments, continueCalls, now, sessionVars, instantVars, qrVars, transfer, callback>>

\* ------------------------------------------------------ GET /api/grants/callback
\* grants.values().find(g => !g.grantData.interactRef): the first in insertion order
FirstPending ==
    IF \E i \in Indices : grants[i].interactRef = NoRef
    THEN CHOOSE i \in Indices :
            /\ grants[i].interactRef = NoRef
            /\ \A j \in 1..(i - 1) : grants[j].interactRef # NoRef
    ELSE 0

\* what the callback answered: the result it was given and the status it sent
NoCallback == [result |-> "none", status |-> 0]

\* a callback that records the interaction reference whatever its result
CallbackIgnoresResult(callbackResult) == TRUE

\* the test of the handler's first statement: FALSE when it answers 400 "Grant
\* authorization failed"
CallbackApproved(callbackResult) == ~(callbackResult # "grant_approved")

\* a callback that records the interaction reference on every grant without one
CallbackMarksAll ==
    /\ \E ref \in RefInputs \ {NoRef} :
        /\ callback' = [result |-> "grant_approved", status |-> 200]
        /\ grants' = [i \in Indices |->
                        IF grants[i].interactRef = NoRef
                        THEN [grants[i] EXCEPT !.interactRef = ref, !.approved = TRUE]
                        ELSE grants[i]]
    /\ UNCHANGED <<customers, served, outgoingpaymentgrantaccessToken, outgoingPayments, slots, continueCalls, now, sessionVars, instantVars, qrVars, transfer>>

\* The authorization server redirects the user here after the interaction of
\* one of the grants was approved or rejected; the request carries interact_ref
\* and result and nothing that names the grant.  The handler is synchronous:
\* the test of result, then the search and the update.
Callback ==
    /\ \E ref \in RefInputs, callbackResult \in ResultInputs :
        IF ~CallbackApproved(callbackResult)
        THEN /\ callback' = [result |-> callbackResult, status |-> 400]
             /\ UNCHANGED grants
        ELSE /\ callback' = [result |-> callbackResult, status |-> 200]
             /\ IF FirstPending # 0 /\ ref # NoRef
                THEN \E interacted \in {i \in Indices : ~grants[i].approved} :
                        grants' = [grants EXCEPT ![interacted].approved = TRUE,
                                                 ![FirstPending].interactRef = ref]
                ELSE UNCHANGED grants
    /\ UNCHANGED <<customers, served, outgoingpaymentgrantaccessToken, outgoingPayments, slots, continueCalls, now, sessionVars, instantVars, qrVars, transfer>>

\* ------------------------------------------------------ POST /api/process-payment
\* the final access token the authorization server issues when the grant with
\* continuation token t is continued
AccessToken(t) == t

\* validation, the wallet lookups and the test of the module-level token slot
PayBegin(s) ==
    /\ Takes(s)
    /\ \E i \in Indices, amount \in AmountInputs :
        LET req == [Idle EXCEPT !.kind = "pay", !.token = grants[i].token,
                                !.amount = amount, !.receivedAt = now]
        IN  slots' = [slots EXCEPT ![s] =
                IF amount = 0
                THEN Done(req, 400, "Validation failed")
                ELSE IF outgoingpaymentgrantaccessToken = NoToken
                THEN [req EXCEPT !.pc = "continue"]
                ELSE [req EXCEPT !.pc = "incoming"]]
    /\ UNCHANGED <<customers, grants, outgoingpaymentgrantaccessToken, outgoingPayments, continueCalls, now, sessionVars, instantVars, qrVars, transfer, callback>>

\* client.grant.continue returns and the token slot is assigned
PayContinue(s) ==
    /\ slots[s].kind = "pay" /\ slots[s].pc = "continue"
    /\ \E ref \in RefInputs :
        continueCalls' = continueCalls \cup {<<slots[s].token, ref>>}
    /\ outgoingpaymentgrantaccessToken' = AccessToken(slots[s].token)
    /\ slots' = [slots EXCEPT ![s].pc = "incoming", ![s].steps = <<TokenStep("continue")>>]
    /\ UNCHANGED <<customers, served, grants, outgoingPayments, now, sessionVars, instantVars, qrVars, transfer, callback>>

PayIncoming(s) ==
    /\ slots[s].kind = "pay" /\ slots[s].pc = "incoming"
    /\ slots' = [slots EXCEPT ![s].pc = "quote"]
    /\ UNCHANGED <<customers, served, grants, outgoingpaymentgrantaccessToken, outgoingPayments, continueCalls, now, sessionVars, instantVars, qrVars, transfer, callback>>

PayQuote(s) ==
    /\ slots[s].kind = "pay" /\ slots[s].pc = "quote"
    /\ slots' = [slots EXCEPT ![s].pc = "outgoing"]
    /\ UNCHANGED <<customers, served, grants, outgoingpaymentgrantaccessToken, outgoingPayments, continueCalls, now, sessionVars, instantVars, qrVars, transfer, callback>>

\* The request has been through createIncomingPayment and createQuote, in that
\* order, when it comes here.
\* client.outgoingPayment.create is called with the token slot's value of the
\* moment and the resource server creates the payment (the quote of a
\* process-payment request is made for it alone and is not tracked: quoteId 0);
\* the call throws, or customerWalletDetails!.resourceServer throws because the
\* request named no customer wallet, which nothing before this point depends on
PayOutgoing(s) ==
    /\ slots[s].kind = "pay" /\ slots[s].pc = "outgoing"
    /\ \/ /\ Len(outgoingPayments) < MaxPayments
          /\ outgoingPayments' = Append(outgoingPayments,
                [accessToken |-> outgoingpaymentgrantaccessToken, grant |-> slots[s].token,
                 amount |-> slots[s].amount, quoteId |-> 0,
                 receivedAt |-> slots[s].receivedAt,
                 steps |-> slots[s].steps
                            \o <<CreateStep("incoming-payment"), CreateStep("quote")>>])
          /\ slots' = [slots EXCEPT ![s].pc = "created"]
       \/ /\ slots' = Respond(s, 500, "Failed to process payment")
          /\ UNCHANGED outgoingPayments
    /\ UNCHANGED <<customers, served, grants, outgoingpaymentgrantaccessToken, continueCalls, now, sessionVars, instantVars, qrVars, transfer, callback>>

\* the handler resumes with the created payment and answers 201
PayRespond(s) ==
    /\ slots[s].kind = "pay" /\ slots[s].pc = "created"
    /\ slots' = Respond(s, 201, "")
    /\ UNCHANGED <<customers, served, grants, outgoingpaymentgrantaccessToken, outgoingPayments, continueCalls, now, sessionVars, instantVars, qrVars, transfer, callback>>

\* an awaited external call before the outgoing payment throws: the catch
\* block answers 500
PayFail(s) ==
    /\ slots[s].kind = "pay" /\ slots[s].pc \in {"continue", "incoming", "quote"}
    /\ slots' = Respond(s, 500, "Failed to process payment")
    /\ UNCHANGED <<customers, served, grants, outgoingpaymentgrantaccessToken, outgoingPayments, continueCalls, now, sessionVars, instantVars, qrVars, transfer, callback>>

\* ---------------------------------------------------------------- the clock
LedgerTick ==
    /\ \E d \in LedgerSteps :
        /\ now + d <= GrantLifetime + 1
        /\ now' = now + d
    /\ UNCHANGED <<customers, served, grants, outgoingpaymentgrantaccessToken, outgoingPayments, slots, continueCalls, sessionVars, instantVars, qrVars, transfer, callback>>

\* ------------------------------------------------ POST /api/start-payment-session
NoSession == [quoteId |-> 0, grantExpiry |-> 0]

\* a creation that goes on whatever the grant request was answered
createUnchecked(grant) == TRUE

\* createIncomingPayment, after client.grant.request has answered: TRUE when it
\* goes on to client.incomingPayment.create, FALSE when it throws "Expected
\* non-interactive grant"
createIncomingPayment(grant) == ~isPendingGrant(grant)

\* createQuote, after client.grant.request has answered: TRUE when it goes on
\* to client.quote.create, FALSE when it throws "Expected non-interactive grant"
createQuote(grant) == ~isPendingGrant(grant)

\* the steps start-payment-session has run when it leaves its try block, and
\* whether it left by the end (TRUE) or by a throw (FALSE); each external call
\* may throw, and each grant request is answered pending or direct
StartRuns ==
    LET incoming(a) == <<GrantStep("incoming-payment", a)>>
        quote(a) == <<GrantStep("quote", a)>>
        created(type) == <<CreateStep(type)>>
    IN  {<<FALSE, <<>>>>}
        \cup {<<FALSE, incoming(a)>> : a \in GrantAnswers}
        \cup {<<FALSE, incoming(a) \o created("incoming-payment")>> :
                a \in {g \in GrantAnswers : createIncomingPayment(g)}}
        \cup {<<FALSE, incoming(a) \o created("incoming-payment") \o quote(b)>> :
                a \in {g \in GrantAnswers : createIncomingPayment(g)}, b \in GrantAnswers}
        \cup {<<TRUE, incoming(a) \o created("incoming-payment") \o quote(b)
                        \o created("quote")>> :
                a \in {g \in GrantAnswers : createIncomingPayment(g)},
                b \in {g \in GrantAnswers : createQuote(g)}}

\* a start-payment-session that saves the session whether or not its creations
\* succeeded
StartPaymentSessionSavesFirst(s) ==
    /\ Takes(s)
    /\ \E sid \in SessionInputs \ {""}, run \in StartRuns :
        /\ quoteCache' = [quoteCache EXCEPT ![sid] =
                [quoteId |-> served + 1, grantExpiry |-> now + SessionMinutes]]
        /\ consumed' = consumed \ {sid}
        /\ slots' = [slots EXCEPT ![s] =
                Done([[Idle EXCEPT !.kind = "start"] EXCEPT !.steps = run[2]],
                     IF run[1] THEN 200 ELSE 500,
                     IF run[1] THEN "" ELSE "Failed to start payment session")]
    /\ UNCHANGED <<outgoingPayments, continueCalls, now, ledgerVars, instantVars, qrVars, transfer, callback>>

\* The handler touches quoteCache once, in quoteCache.set after its last await:
\* the whole handler is one step.  The quote the resource server creates is
\* named after the request.
StartPaymentSession(s) ==
    /\ Takes(s)
    /\ \E sid \in SessionInputs :
        LET req == [Idle EXCEPT !.kind = "start"]
        IN  \/ /\ sid = ""
               /\ slots' = [slots EXCEPT ![s] = Done(req, 400, "Missing required fields")]
               /\ UNCHANGED <<quoteCache, consumed>>
            \/ /\ sid # ""
               /\ \E run \in StartRuns :
                    IF run[1]
                    THEN /\ quoteCache' = [quoteCache EXCEPT ![sid] =
                                [quoteId |-> served + 1, grantExpiry |-> now + SessionMinutes]]
                         /\ consumed' = consumed \ {sid}
                         /\ slots' = [slots EXCEPT ![s] =
                                Done([req EXCEPT !.steps = run[2]], 200, "")]
                    ELSE /\ slots' = [slots EXCEPT ![s] =
                                Done([req EXCEPT !.steps = run[2]], 500,
                                     "Failed to start payment session")]
                         /\ UNCHANGED <<quoteCache, consumed>>
    /\ UNCHANGED <<outgoingPayments, continueCalls, now, ledgerVars, instantVars, qrVars, transfer, callback>>

\* ------------------------------------------------------ POST /api/approve-payment
\* approve-payment without the expiry test
ApproveValidateNoExpiry(sid, ref) ==
    IF sid = "" \/ ref = NoRef THEN <<400, "Missing required fields">>
    ELSE IF quoteCache[sid] = NoSession THEN <<400, "No payment session found">>
    ELSE <<0, "">>

\* validation, then quoteCache.get and the expiry test; the await of
\* getAuthenticatedClient between them touches no shared state
ApproveValidate(sid, ref) ==
    IF sid = "" \/ ref = NoRef THEN <<400, "Missing required fields">>
    ELSE IF quoteCache[sid] = NoSession THEN <<400, "No payment session found">>
    ELSE IF quoteCache[sid].grantExpiry < now
         THEN <<400, "Quote grant expired, please restart payment">>
    ELSE <<0, "">>

ApproveBegin(s) ==
    /\ Takes(s)
    /\ \E sid \in SessionInputs, ref \in RefInputs, token \in TokenInputs :
        LET r == ApproveValidate(sid, ref)
            bad == [Idle EXCEPT !.kind = "approve", !.receivedAt = now]
            req == [bad EXCEPT !.sid = sid]
        IN  slots' = [slots EXCEPT ![s] =
                IF r[2] = "Missing required fields"
                THEN Done(bad, r[1], r[2])
                ELSE IF r[1] # 0
                THEN Done(req, r[1], r[2])
                ELSE [req EXCEPT !.pc = "continue", !.ref = ref, !.token = token,
                                 !.quoteId = quoteCache[sid].quoteId]]
    /\ UNCHANGED <<outgoingPayments, continueCalls, now, ledgerVars, sessionVars, instantVars, qrVars, transfer, callback>>

\* createOutgoingPayment: client.grant.continue returns the grant
ApproveContinue(s) ==
    /\ slots[s].kind = "approve" /\ slots[s].pc = "continue"
    /\ continueCalls' = continueCalls \cup {<<slots[s].token, slots[s].ref>>}
    /\ slots' = [slots EXCEPT ![s].pc = "create"]
    /\ UNCHANGED <<served, outgoingPayments, now, ledgerVars, sessionVars, instantVars, qrVars, transfer, callback>>

\* createOutgoingPayment: client.outgoingPayment.create for the cached quote
ApproveCreate(s) ==
    /\ slots[s].kind = "approve" /\ slots[s].pc = "create"
    /\ Len(outgoingPayments) < MaxPayments
    /\ outgoingPayments' = Append(outgoingPayments,
            [accessToken |-> AccessToken(slots[s].token), grant |-> slots[s].token,
             amount |-> 0, quoteId |-> slots[s].quoteId,
             receivedAt |-> slots[s].receivedAt,
             steps |-> <<CreateStep("incoming-payment"), CreateStep("quote"),
                         TokenStep("continue")>>])
    /\ slots' = [slots EXCEPT ![s].pc = "created"]
    /\ UNCHANGED <<served, continueCalls, now, ledgerVars, sessionVars, instantVars, qrVars, transfer, callback>>

\* approve-payment answering 200 without quoteCache.delete
ApproveFinishKeepsSession(s) ==
    /\ slots[s].kind = "approve" /\ slots[s].pc = "created"
    /\ consumed' = consumed \cup {slots[s].sid}
    /\ slots' = Respond(s, 200, "")
    /\ UNCHANGED <<served, outgoingPayments, continueCalls, now, quoteCache, ledgerVars,
                   instantVars, qrVars, transfer, callback>>

\* quoteCache.delete(clientSessionId) and the 200 response
ApproveFinish(s) ==
    /\ slots[s].kind = "approve" /\ slots[s].pc = "created"
    /\ quoteCache' = [quoteCache EXCEPT ![slots[s].sid] = NoSession]
    /\ consumed' = consumed \cup {slots[s].sid}
    /\ slots' = Respond(s, 200, "")
    /\ UNCHANGED <<served, outgoingPayments, continueCalls, now, ledgerVars, instantVars, qrVars, transfer, callback>>

\* a catch block that also drops the session
ApproveFailDropsSession(s) ==
    /\ slots[s].kind = "approve" /\ slots[s].pc \in {"continue", "create"}
    /\ quoteCache' = [quoteCache EXCEPT ![slots[s].sid] = NoSession]
    /\ slots' = Respond(s, 500, "Failed to approve payment")
    /\ UNCHANGED <<served, outgoingPayments, continueCalls, now, consumed, ledgerVars,
                   instantVars, qrVars, transfer, callback>>

\* one of the awaited external calls throws: the catch block answers 500
ApproveFail(s) ==
    /\ slots[s].kind = "approve" /\ slots[s].pc \in {"continue", "create"}
    /\ slots' = Respond(s, 500, "Failed to approve payment")
    /\ UNCHANGED <<served, outgoingPayments, continueCalls, now, ledgerVars, sessionVars, instantVars, qrVars, transfer, callback>>

SessionTick ==
    /\ \E d \in SessionSteps :
        /\ now + d <= SessionMinutes + 1
        /\ now' = now + d
    /\ UNCHANGED <<served, outgoingPayments, slots, continueCalls, ledgerVars, sessionVars, instantVars, qrVars, transfer, callback>>

\* ------------------------------------------------- OpenPayments (instant pay)
NoEntry ==
    [walletAddressUrl |-> "", clientNonce |-> <<>>, interactNonce |-> <<>>,
     continueToken |-> "", expiresAt |-> 0]

NoResult ==
    [op |-> "none", outcome |-> "", identifier |-> "", ref |-> <<>>, hash |-> <<>>,
     grant |-> "none", cause |-> "none", steps |-> <<>>]

\* opClient.walletAddress.get: the authorization server on record for a wallet
AuthServerOf(wallet) == IF wallet = "alice" THEN <<"x">> ELSE <<"y">>

AuthServers == {AuthServerOf(w) : w \in WalletInputs}

\* createHash("sha-256").update(data).digest("base64"), taken as injective
Sha256Base64(data) == <<"sha-256">> \o data

\* the template `${clientNonce}\n${interactNonce}\n${interactRef}\n${authServer}/`
InteractionData(clientNonce, interactNonce, interactRef, authServer) ==
    clientNonce \o <<"\n">> \o interactNonce \o <<"\n">> \o interactRef \o <<"\n">>
        \o authServer \o <<"/">>

\* the hashes a caller may present
HashInputs ==
    {Sha256Base64(InteractionData(c, i, r, a)) :
        c \in NonceInputs, i \in NonceInputs, r \in InteractRefInputs, a \in AuthServers}

\* Cache.set(key, value, ttl) and Cache.get(key): a key-value store with a
\* time to live in seconds
CacheSet(key, value, ttl) ==
    [cache EXCEPT ![key] = [value EXCEPT !.expiresAt = now + ttl \div 60]]

CacheGet(key) ==
    IF cache[key] # NoEntry /\ now < cache[key].expiresAt THEN cache[key] ELSE NoEntry

\* a call of a method of OpenPayments and what it returned or threw; grant is
\* what the authorization server answered to the call's grant request
CallsWith(op, outcome, identifier, ref, hash, grant) ==
    /\ served < MaxCalls
    /\ served' = served + 1
    /\ result' = [op |-> op, outcome |-> outcome, identifier |-> identifier,
                  ref |-> ref, hash |-> hash, grant |-> grant, cause |-> "none",
                  steps |-> <<>>]

Calls(op, outcome, identifier, ref, hash) ==
    CallsWith(op, outcome, identifier, ref, hash, "none")

\* randomUUID(): an identifier never used before, the first of them
FreshIdentifier ==
    IF cache["id1"] = NoEntry THEN {"id1"}
    ELSE IF cache["id2"] = NoEntry THEN {"id2"}
    ELSE {}

\* setupInstantPay: randomUUID gives a fresh identifier and nonce; the
\* authorization server answers with a pending grant whose interact.finish is
\* its nonce and whose continuation token is named after the identifier
SetupInstantPay ==
    /\ \/ /\ Calls("setup", "DownstreamError", "", <<>>, <<>>)
          /\ UNCHANGED cache
       \/ \E grant \in GrantAnswers :
            /\ ~isPendingGrant(grant)
            /\ CallsWith("setup", "Expected interactive grant for instant-pay setup", "",
                         <<>>, <<>>, grant)
            /\ UNCHANGED cache
       \/ \E wallet \in WalletInputs, clientNonce \in NonceInputs, interactNonce \in ServerNonces,
             clientIdentifier \in FreshIdentifier, grant \in GrantAnswers :
            /\ isPendingGrant(grant)
            /\ CallsWith("setup", "redirect", clientIdentifier, <<>>, <<>>, grant)
            /\ cache' = CacheSet(clientIdentifier,
                    [NoEntry EXCEPT !.walletAddressUrl = wallet, !.clientNonce = clientNonce,
                                    !.interactNonce = interactNonce,
                                    !.continueToken = clientIdentifier],
                    CacheTtlSeconds)
    /\ UNCHANGED <<outgoingPayments, slots, continueCalls, now, verifiedCalls,
                   ledgerVars, sessionVars, qrVars, transfer, callback>>

\* a verification whose data leaves out the authorization server
verifyWithoutAuthServer(receivedHash, clientNonce, interactNonce, interactRef, authServer) ==
    \E a \in AuthServers :
        Sha256Base64(InteractionData(clientNonce, interactNonce, interactRef, a)) = receivedHash

\* a verification whose data leaves out the interaction reference
verifyWithoutInteractRef(receivedHash, clientNonce, interactNonce, interactRef, authServer) ==
    \E r \in InteractRefInputs :
        Sha256Base64(InteractionData(clientNonce, interactNonce, r, authServer)) = receivedHash

\* verifyInteractionHash, after its wallet lookup has returned authServer:
\* TRUE when it returns, FALSE when it throws "Hash verification failed"
verifyInteractionHash(receivedHash, clientNonce, interactNonce, interactRef, authServer) ==
    LET data == InteractionData(clientNonce, interactNonce, interactRef, authServer)
        calculatedHash == Sha256Base64(data)
    IN  ~(calculatedHash # receivedHash)

\* completeInstantPaySetup: the cache lookup, the verification and continueGrant.
\* The cache is read once, before the first await, and is not written.  A wallet
\* lookup that throws ends the call before the comparison; grant.continue
\* returns a grant or a response without access_token, or throws.
CompleteInstantPaySetup ==
    /\ \/ \E identifier \in Identifiers :
            /\ CacheGet(identifier) = NoEntry
            /\ Calls("complete", "TypeError", identifier, <<>>, <<>>)
            /\ UNCHANGED <<continueCalls, verifiedCalls>>
       \/ \E identifier \in Identifiers, interactRef \in InteractRefInputs, hash \in HashInputs :
            LET InstantPayData == CacheGet(identifier)
                verified == verifyInteractionHash(hash, InstantPayData.clientNonce,
                                InstantPayData.interactNonce, interactRef,
                                AuthServerOf(InstantPayData.walletAddressUrl))
                call == <<InstantPayData.continueToken, interactRef>>
            IN  /\ InstantPayData # NoEntry
                /\ \/ /\ Calls("complete", "WalletLookupFailed", identifier, interactRef, hash)
                      /\ UNCHANGED <<continueCalls, verifiedCalls>>
                   \/ /\ ~verified
                      /\ Calls("complete", "Hash verification failed", identifier,
                               interactRef, hash)
                      /\ UNCHANGED <<continueCalls, verifiedCalls>>
                   \/ /\ verified
                      /\ verifiedCalls' = verifiedCalls \cup {call}
                      /\ continueCalls' = continueCalls \cup {call}
                      /\ \E outcome \in {"TokenInfo", "Expected grant response",
                                         "ContinueFailed"} :
                            Calls("complete", outcome, identifier, interactRef, hash)
    /\ UNCHANGED <<outgoingPayments, slots, now, cache, ledgerVars, sessionVars, qrVars, transfer, callback>>

InstantTick ==
    /\ now = 0
    /\ now' = CacheLifetime + 1
    /\ UNCHANGED <<served, outgoingPayments, slots, continueCalls, ledgerVars, sessionVars,
                   instantVars, qrVars, transfer, callback>>

\* ---------------------------------------------------------- makeInstantPayment
LimitExceeded == "One click buy spending limit exceeded. Please setup one click buy again."

\* why the resource server refuses an outgoing payment: the debit is over the
\* grant's remaining limit, or a failure that has nothing to do with the limit
FailureCauses == {"limit", "transient"}

\* createVendorIncomingPayment, after opClient.grant.request has answered: TRUE
\* when it goes on to incomingPayment.create, FALSE when it throws "Expected
\* non-interactive grant for incoming payment"
createVendorIncomingPayment(grant) == ~isPendingGrant(grant)

\* a wallet lookup of a transfer: opClient.walletAddress.get, getWalletAddressInfo
WalletStep(type) == [step |-> "wallet", type |-> type, answer |-> "none"]

\* the external calls of makeInstantPayment, in the order of its awaits
InstantPayPipeline ==
    <<WalletStep("sender"), WalletStep("receiver"), GrantStep("incoming-payment", "none"),
      CreateStep("incoming-payment"), TokenStep("rotate"), CreateStep("outgoing-payment")>>

\* the external calls of processSubscriptionPayment, in the order of its awaits
SubscriptionPipeline ==
    <<TokenStep("rotate"), WalletStep("receiver"), WalletStep("sender"),
      GrantStep("incoming-payment", "none"), CreateStep("incoming-payment"),
      GrantStep("quote", "none"), CreateStep("quote"), CreateStep("outgoing-payment")>>

\* what an external call may do: return, throw, and for a grant request return
\* a pending or a direct grant, for token.rotate return without access_token
Answers(call) ==
    CASE call.step = "grant" -> GrantAnswers \cup {"threw"}
      [] call.step = "rotate" -> {"returned", "no token", "threw"}
      [] OTHER -> {"returned", "threw"}

\* a rotation whose answer is used without reading the token's fields
rotatedUnchecked(answer) == answer # "threw"

\* token.rotate has returned and the reads of token.access_token.access and
\* freshGrant.access_token.value do not throw: the answer carries access_token
rotated(answer) == answer = "returned"

\* the function goes on to its next call after this answer
Proceeds(call, answer) ==
    CASE call.step = "grant" -> answer # "threw" /\ ~isPendingGrant(answer)
      [] call.step = "rotate" -> rotated(answer)
      [] OTHER -> answer = "returned"

RECURSIVE Runs(_)
\* the sequences of calls a function made of these awaits, one after the other
\* and none inside a loop or a retry, can make: each call is made once, and
\* the first that does not proceed throws out of the function
Runs(pipeline) ==
    IF pipeline = <<>> THEN {<<>>}
    ELSE LET call == Head(pipeline)
         IN  UNION {IF Proceeds(call, answer)
                    THEN {<<[call EXCEPT !.answer = answer]>> \o rest :
                            rest \in Runs(Tail(pipeline))}
                    ELSE {<<[call EXCEPT !.answer = answer]>>} :
                    answer \in Answers(call)}

\* the function returned: every call of the pipeline was made and proceeded
Completed(pipeline, run) ==
    /\ Len(run) = Len(pipeline)
    /\ Proceeds(pipeline[Len(pipeline)], run[Len(run)].answer)

\* the answer to the incoming-payment grant request of a run, if it got there
GrantAnswerOf(run) ==
    IF \E i \in 1..Len(run) : run[i].step = "grant" /\ run[i].type = "incoming-payment"
    THEN run[CHOOSE i \in 1..Len(run) :
                run[i].step = "grant" /\ run[i].type = "incoming-payment"].answer
    ELSE "none"

\* what makeInstantPayment throws or returns after this run
InstantPayOutcome(run) ==
    LET last == run[Len(run)]
    IN  IF Completed(InstantPayPipeline, run) THEN "paid"
        ELSE IF last.step = "grant" /\ last.answer # "threw"
                /\ ~createVendorIncomingPayment(last.answer)
        THEN "Expected non-interactive grant for incoming payment"
        ELSE IF last.step = "rotate" /\ last.answer = "no token" THEN "TypeError"
        ELSE IF last.step = "create" /\ last.type = "outgoing-payment" THEN LimitExceeded
        ELSE "DownstreamError"

\* makeInstantPayment reads and writes no store of the process; the payments it
\* creates are at the resource server.  Every failure of outgoingPayment.create
\* is rethrown by the .catch with the one message.
MakeInstantPayment ==
    /\ served < MaxCalls
    /\ served' = served + 1
    /\ \E accessToken \in TokenInputs, amount \in AmountInputs,
          run \in Runs(InstantPayPipeline) :
        LET call == [NoResult EXCEPT !.op = "pay", !.grant = GrantAnswerOf(run),
                                     !.steps = run, !.outcome = InstantPayOutcome(run)]
        IN  \/ /\ call.outcome = "paid"
               /\ Len(outgoingPayments) < MaxPayments
               /\ outgoingPayments' = Append(outgoingPayments,
                        [accessToken |-> accessToken, grant |-> accessToken,
                         amount |-> amount, quoteId |-> 0, receivedAt |-> now,
                         steps |-> <<CreateStep("incoming-payment"), TokenStep("rotate")>>])
               /\ result' = call
            \/ /\ call.outcome = LimitExceeded
               /\ \E cause \in FailureCauses : result' = [call EXCEPT !.cause = cause]
               /\ UNCHANGED outgoingPayments
            \/ /\ call.outcome \notin {"paid", LimitExceeded}
               /\ result' = call
               /\ UNCHANGED outgoingPayments
    /\ UNCHANGED <<slots, continueCalls, now, cache, verifiedCalls, ledgerVars, sessionVars, qrVars, transfer, callback>>

\* ------------------------------------------------- processSubscriptionPayment
\* what processSubscriptionPayment throws or returns after this run
SubscriptionOutcome(run) ==
    LET last == run[Len(run)]
    IN  IF Completed(SubscriptionPipeline, run) THEN "paid"
        ELSE IF last.step = "grant" /\ last.answer = "pending"
        THEN "Expected non-interactive grant"
        ELSE IF last.step = "rotate" /\ last.answer = "no token" THEN "TypeError"
        ELSE IF last.step = "create" /\ last.type = "outgoing-payment"
        THEN "Error creating subscription outgoing payment"
        ELSE "DownstreamError"

\* processSubscriptionPayment reads and writes no store of the process; the
\* quote the resource server creates is named after the call
ProcessSubscriptionPayment ==
    /\ served < MaxCalls
    /\ served' = served + 1
    /\ \E previousToken \in TokenInputs, receiveAmount \in AmountInputs,
          run \in Runs(SubscriptionPipeline) :
        LET call == [NoResult EXCEPT !.op = "subscription", !.grant = GrantAnswerOf(run),
                                     !.steps = run, !.outcome = SubscriptionOutcome(run)]
        IN  \/ /\ call.outcome = "paid"
               /\ Len(outgoingPayments) < MaxPayments
               /\ outgoingPayments' = Append(outgoingPayments,
                        [accessToken |-> previousToken, grant |-> previousToken,
                         amount |-> receiveAmount, quoteId |-> served + 1,
                         receivedAt |-> now,
                         steps |-> <<TokenStep("rotate"), CreateStep("incoming-payment"),
                                     CreateStep("quote")>>])
               /\ result' = call
            \/ /\ call.outcome # "paid"
               /\ result' = call
               /\ UNCHANGED outgoingPayments
    /\ UNCHANGED <<slots, continueCalls, now, cache, verifiedCalls, ledgerVars, sessionVars, qrVars, transfer, callback>>

\* ------------------------------------------------------------ the QR bundle
\* process.env.QR_SIGNING_SECRET || 'default-secret-change-in-prod'
Secret == "default-secret-change-in-prod"

\* vendor.name, copied into the grant as vendorName when it is stored
VendorName(v) == IF v = "vendor1" THEN "ShopA Market" ELSE "unknown"

NoBundle == [customerId |-> "", grants |-> <<>>, generatedAt |-> 0, signature |-> <<>>]

NoVerification == [qrData |-> NoBundle, grants |-> <<>>]

\* the summary of a grant in the QR data
GrantSummary(g) ==
    [grantId |-> g.id, vendorId |-> g.vendorId, vendorName |-> VendorName(g.vendorId),
     dailyLimit |-> g.dailyLimit, expiresAt |-> g.expiresAt]

\* JSON.stringify of a grant summary, as the sequence of its tokens
StringifySummary(g) ==
    <<"{", "grantId", ":", ToString(g.grantId), ",", "vendorId", ":", g.vendorId, ",",
      "vendorName", ":", g.vendorName, ",", "dailyLimit", ":", ToString(g.dailyLimit), ",",
      "expiresAt", ":", ToString(g.expiresAt), "}">>

RECURSIVE StringifyList(_)
StringifyList(list) ==
    IF list = <<>> THEN <<>>
    ELSE IF Len(list) = 1 THEN StringifySummary(list[1])
    ELSE StringifySummary(list[1]) \o <<",">> \o StringifyList(Tail(list))

\* JSON.stringify(data) for data = {customerId, grants, generatedAt}
Stringify(data) ==
    <<"{", "customerId", ":", data.customerId, ",", "grants", ":", "[">>
        \o StringifyList(data.grants)
        \o <<"]", ",", "generatedAt", ":", ToString(data.generatedAt), "}">>

\* createHmac('sha256', secret).update(JSON.stringify(data)).digest('hex'),
\* taken as injective
generateQRSignature(data) == <<"hmac-sha256", Secret>> \o Stringify(data)

\* a verification that checks the customer and the time against the signature
\* of any issued grant list, not the presented one
verifyQRSignatureWithoutGrants(qrData) ==
    LET dataWithoutSignature ==
            [customerId |-> qrData.customerId, grants |-> <<>>,
             generatedAt |-> qrData.generatedAt]
    IN  \E list \in {d.grants : d \in signed} :
            qrData.signature = generateQRSignature([dataWithoutSignature EXCEPT !.grants = list])

\* a verification that serializes generatedAt as the issuing code does not
verifyQRSignatureOtherTime(qrData) ==
    LET dataWithoutSignature ==
            [customerId |-> qrData.customerId, grants |-> qrData.grants,
             generatedAt |-> qrData.generatedAt + 1]
    IN  qrData.signature = generateQRSignature(dataWithoutSignature)

\* verifyQRSignature: the signature is taken off and the rest is signed again
verifyQRSignature(qrData) ==
    LET dataWithoutSignature ==
            [customerId |-> qrData.customerId, grants |-> qrData.grants,
             generatedAt |-> qrData.generatedAt]
        expectedSignature == generateQRSignature(dataWithoutSignature)
    IN  qrData.signature = expectedSignature

RECURSIVE MapSummaries(_)
MapSummaries(list) ==
    IF list = <<>> THEN <<>> ELSE <<GrantSummary(list[1])>> \o MapSummaries(Tail(list))

\* a filter that also keeps the grants still awaiting interaction
activeGrantsWithPending(customerId) ==
    LET Keep(grant) ==
            /\ grant.customerId = customerId
            /\ grant.status = "active"
            /\ grant.expiresAt > now
    IN  SelectSeq(grants, Keep)

\* a filter that also keeps the grants past their expiry
activeGrantsWithExpired(customerId) ==
    LET Keep(grant) ==
            /\ grant.customerId = customerId
            /\ grant.status = "active"
            /\ grant.interactRef # NoRef
    IN  SelectSeq(grants, Keep)

\* the grants of the customer that are active, unexpired and authorized
activeGrants(customerId) ==
    LET Keep(grant) ==
            /\ grant.customerId = customerId
            /\ grant.status = "active"
            /\ grant.expiresAt > now
            /\ grant.interactRef # NoRef
    IN  SelectSeq(grants, Keep)

\* the bundle the QR code holds: the data and its signature
QrBundle(data) ==
    [customerId |-> data.customerId, grants |-> data.grants,
     generatedAt |-> data.generatedAt, signature |-> generateQRSignature(data)]

\* ------------------------------------- POST /api/customers/:customerId/qr-code
\* the handler reads the stores before its only await, QRCode.toDataURL; a
\* refused request keeps the customerId it named
QrCode(s) ==
    /\ Takes(s)
    /\ \E customerId \in CustomerInputs :
        LET req == [Idle EXCEPT !.kind = "qr"]
            refused(code, msg) == [Done(req, code, msg) EXCEPT !.customerId = customerId]
            qrDataWithoutSignature ==
                [customerId |-> customerId, grants |-> MapSummaries(activeGrants(customerId)),
                 generatedAt |-> now]
        IN  \/ /\ customerId \notin customers
               /\ slots' = [slots EXCEPT ![s] = refused(404, "Customer not found")]
               /\ UNCHANGED signed
            \/ /\ customerId \in customers
               /\ activeGrants(customerId) = <<>>
               /\ slots' = [slots EXCEPT ![s] =
                        refused(400, "No active authorized grants found")]
               /\ UNCHANGED signed
            \/ /\ customerId \in customers
               /\ activeGrants(customerId) # <<>>
               /\ signed' = signed \cup {qrDataWithoutSignature}
               /\ \/ slots' = [slots EXCEPT ![s] = Done(req, 200, "")]
                  \/ slots' = [slots EXCEPT ![s] = Done(req, 500, "Failed to generate QR code")]
    /\ UNCHANGED <<outgoingPayments, continueCalls, now, verification, ledgerVars, sessionVars, instantVars, transfer, callback>>

\* what is done to a bundle before it is presented
TamperKinds ==
    {"none", "customerId", "grantId", "vendorId", "vendorName", "dailyLimit", "expiresAt",
     "dropGrant", "addGrant", "generatedAt", "signature"}

Tamper(b, kind) ==
    CASE kind = "none" -> b
      [] kind = "customerId" ->
            [b EXCEPT !.customerId = IF @ = "customer1" THEN "customer2" ELSE "customer1"]
      [] kind = "grantId" -> [b EXCEPT !.grants[1].grantId = @ + 1]
      [] kind = "vendorId" -> [b EXCEPT !.grants[1].vendorId = "vendor2"]
      [] kind = "vendorName" -> [b EXCEPT !.grants[1].vendorName = "MarketB Fresh"]
      [] kind = "dailyLimit" -> [b EXCEPT !.grants[1].dailyLimit = @ + 1]
      [] kind = "expiresAt" -> [b EXCEPT !.grants[1].expiresAt = @ + 1]
      [] kind = "dropGrant" -> [b EXCEPT !.grants = Tail(@)]
      [] kind = "addGrant" -> [b EXCEPT !.grants = @ \o <<@[1]>>]
      [] kind = "generatedAt" -> [b EXCEPT !.generatedAt = @ + 1]
      [] kind = "signature" -> [b EXCEPT !.signature = <<"hmac-sha256", "forged">> \o Tail(Tail(@))]

\* the bundles a caller may present: one the server issued, as issued or changed
PresentedBundles == {Tamper(QrBundle(data), kind) : data \in signed, kind \in TamperKinds}

\* ------------------------------------------------------ POST /api/qr-code/verify
\* the handler is synchronous
QrVerify(s) ==
    /\ Takes(s)
    /\ LET req == [Idle EXCEPT !.kind = "verify"]
       IN  \/ /\ slots' = [slots EXCEPT ![s] = Done(req, 400, "QR data is required")]
              /\ verification' = NoVerification
           \/ \E qrData \in PresentedBundles :
                LET isValid == verifyQRSignature(qrData)
                IN  IF ~isValid
                    THEN /\ slots' = [slots EXCEPT ![s] =
                                Done(req, 400, "Invalid QR code signature")]
                         /\ verification' = [qrData |-> qrData, grants |-> <<>>]
                    ELSE IF qrData.customerId \notin customers
                    THEN /\ slots' = [slots EXCEPT ![s] = Done(req, 404, "Customer not found")]
                         /\ verification' = [qrData |-> qrData, grants |-> <<>>]
                    ELSE /\ slots' = [slots EXCEPT ![s] = Done(req, 200, "")]
                         /\ verification' = [qrData |-> qrData, grants |-> qrData.grants]
    /\ UNCHANGED <<outgoingPayments, continueCalls, now, signed, ledgerVars, sessionVars, instantVars, transfer, callback>>

\* ------------------------------------------- the requests made for a transfer
\* the wallets a transfer may name, and the amounts it may carry
TransferWallets == {"alice", "bob", "carol"}
TransferAmounts == {1, 2, 3}

\* the assetScale of a wallet address, as walletAddress.get returns it
AssetScaleOf(wallet) ==
    CASE wallet = "alice" -> 2
      [] wallet = "bob" -> 3
      [] OTHER -> 0

\* the wallet address document: its own URL, its authorization server, its
\* resource server and its asset scale
WalletDetails(wallet) ==
    [id |-> <<"wallet", wallet>>, authServer |-> AuthServerOf(wallet),
     resourceServer |-> <<"resource", wallet>>, assetScale |-> AssetScaleOf(wallet)]

RECURSIVE Pow10(_)
\* 10 ** n
Pow10(n) == IF n = 0 THEN 1 ELSE 10 * Pow10(n - 1)

\* a request to an Open Payments server: the call, the URL it is sent to, and
\* the fields of its body that matter here
Request(call, url, walletAddress, value, assetScale, receiver) ==
    [call |-> call, url |-> url, walletAddress |-> walletAddress, value |-> value,
     assetScale |-> assetScale, receiver |-> receiver]

\* incomingPayment.id: the resource the resource server creates for a wallet
IncomingPaymentId(walletAddress) == <<"incoming-payment">> \o walletAddress

\* createIncomingPayment(client, value, walletAddressDetails) of open-payments.ts
createIncomingPaymentRequests(value, walletAddressDetails) ==
    <<Request("grant.request:incoming-payment", walletAddressDetails.authServer,
              <<>>, "", 0, <<>>),
      Request("incomingPayment.create", walletAddressDetails.resourceServer,
              walletAddressDetails.id, value, walletAddressDetails.assetScale, <<>>)>>

\* createQuote(client, incomingPaymentUrl, walletAddressDetails) of open-payments.ts
createQuoteRequests(incomingPaymentUrl, walletAddressDetails) ==
    <<Request("grant.request:quote", walletAddressDetails.authServer, <<>>, "", 0, <<>>),
      Request("quote.create", walletAddressDetails.resourceServer,
              walletAddressDetails.id, "", 0, incomingPaymentUrl)>>

\* createVendorIncomingPayment(vendorWallet, amount, description) of cache.ts
createVendorIncomingPaymentRequests(vendorWallet, amount) ==
    <<Request("grant.request:incoming-payment", vendorWallet.id, <<>>, "", 0, <<>>),
      Request("incomingPayment.create", vendorWallet.id, vendorWallet.id,
              ToString(amount * Pow10(vendorWallet.assetScale)), vendorWallet.assetScale,
              <<>>)>>

NoTransfer ==
    [path |-> "none", amount |-> 0, sender |-> "", receiver |-> "", requests |-> <<>>,
     threw |-> FALSE, status |-> 0]

\* client.outgoingPayment.create of process-payment: sent to the customer
\* wallet's resource server for the incoming payment
createOutgoingPaymentRequests(incomingPaymentUrl, value, customerWalletDetails) ==
    <<Request("outgoingPayment.create", customerWalletDetails.resourceServer,
              customerWalletDetails.id, value, customerWalletDetails.assetScale,
              incomingPaymentUrl)>>

\* a handler that reads customerWalletDetails without looking whether it is there
readsCustomerWalletUnchecked(customerWalletAddress) == TRUE

\* customerWalletDetails!.resourceServer: TRUE when customerWalletDetails was
\* assigned, FALSE when it is undefined and reading its property throws
readsCustomerWallet(customerWalletAddress) == customerWalletAddress # ""

\* process-payment: the requests it makes.  customerWalletAddress is optional
\* ("" when absent); without one of the required fields the handler answers 400.
\* The requests are made in order and any awaited call may throw, which ends
\* the handler in its catch block with 500: requests holds the requests that
\* returned, threw tells that the call after them threw.  Without a customer
\* wallet customerWalletDetails!.resourceServer throws once the quote is there.
ProcessPaymentRequests ==
    /\ served < MaxCalls
    /\ served' = served + 1
    /\ \E customerWalletAddress \in TransferWallets \cup {""},
          receiverWalletAddress \in TransferWallets, spendAmount \in TransferAmounts,
          required \in BOOLEAN :
        LET receiverWalletDetails == WalletDetails(receiverWalletAddress)
            walletForQuote ==
                IF customerWalletAddress # "" THEN WalletDetails(customerWalletAddress)
                ELSE receiverWalletDetails
            incomingPaymentUrl == IncomingPaymentId(receiverWalletDetails.id)
            all == createIncomingPaymentRequests(ToString(spendAmount * 100),
                                                 receiverWalletDetails)
                    \o createQuoteRequests(incomingPaymentUrl, walletForQuote)
                    \o (IF readsCustomerWallet(customerWalletAddress)
                        THEN createOutgoingPaymentRequests(incomingPaymentUrl,
                                ToString(spendAmount * 100),
                                WalletDetails(customerWalletAddress))
                        ELSE <<>>)
            req == [path |-> "process-payment", amount |-> spendAmount,
                    sender |-> customerWalletAddress, receiver |-> receiverWalletAddress,
                    requests |-> <<>>, threw |-> FALSE, status |-> 400]
        IN  IF ~required
            THEN transfer' = req
            ELSE \E returned \in 0..Len(all) :
                    transfer' =
                        [req EXCEPT !.requests = SubSeq(all, 1, returned),
                                    !.threw = returned < Len(all),
                                    !.status =
                                        IF returned = Len(all)
                                           /\ readsCustomerWallet(customerWalletAddress)
                                        THEN 201 ELSE 500]
    /\ UNCHANGED <<outgoingPayments, slots, continueCalls, now, ledgerVars, sessionVars,
                   instantVars, qrVars, callback>>

\* makeInstantPayment, all of its calls returning: the incoming payment it asks
\* for (it asks for no quote)
MakeInstantPaymentRequests ==
    /\ served < MaxCalls
    /\ served' = served + 1
    /\ \E senderPaymentPointer \in TransferWallets, vendorPaymentPointer \in TransferWallets,
          amount \in TransferAmounts :
        transfer' =
            [path |-> "makeInstantPayment", amount |-> amount,
             sender |-> senderPaymentPointer, receiver |-> vendorPaymentPointer,
             requests |->
                createVendorIncomingPaymentRequests(WalletDetails(vendorPaymentPointer),
                                                    amount),
             threw |-> FALSE, status |-> 0]
    /\ UNCHANGED <<outgoingPayments, slots, continueCalls, now, ledgerVars, sessionVars,
                   instantVars, qrVars, callback>>

\* ------------------------------------------------------------ specifications
\* the vendor-facing server seeds customer1 and vendor1
Init ==
    /\ customers = {"customer1"}
    /\ grants = <<>>
    /\ outgoingpaymentgrantaccessToken = NoToken
    /\ outgoingPayments = <<>>
    /\ slots = [s \in Slots |-> Idle]
    /\ continueCalls = {}
    /\ served = 0
    /\ now = 0
    /\ quoteCache = [sid \in SessionInputs \ {""} |-> NoSession]
    /\ consumed = {}
    /\ cache = [id \in Identifiers |-> NoEntry]
    /\ result = NoResult
    /\ verifiedCalls = {}
    /\ signed = {}
    /\ verification = NoVerification
    /\ transfer = NoTransfer
    /\ callback = NoCallback

\* the vendor-facing server: authorize-vendor and process-payment
VendorNext ==
    \/ \E s \in Slots : AuthorizeVendor(s)
    \/ \E s \in Slots : PayBegin(s)
    \/ \E s \in Slots : PayContinue(s)
    \/ \E s \in Slots : PayIncoming(s)
    \/ \E s \in Slots : PayQuote(s)
    \/ \E s \in Slots : PayOutgoing(s)
    \/ \E s \in Slots : PayRespond(s)
    \/ \E s \in Slots : PayFail(s)
    \/ LedgerTick

SpecVendor == Init /\ [][VendorNext]_vars

\* the customer-facing server: customers, /grants and the callback; its
\* customers Map starts empty
CustomerInit ==
    /\ customers = {}
    /\ grants = <<>>
    /\ outgoingpaymentgrantaccessToken = NoToken
    /\ outgoingPayments = <<>>
    /\ slots = [s \in Slots |-> Idle]
    /\ continueCalls = {}
    /\ served = 0
    /\ now = 0
    /\ quoteCache = [sid \in SessionInputs \ {""} |-> NoSession]
    /\ consumed = {}
    /\ cache = [id \in Identifiers |-> NoEntry]
    /\ result = NoResult
    /\ verifiedCalls = {}
    /\ signed = {}
    /\ verification = NoVerification
    /\ transfer = NoTransfer
    /\ callback = NoCallback

CustomerNext ==
    \/ \E s \in Slots : CreateCustomer(s)
    \/ \E s \in Slots : GrantsBegin(s)
    \/ \E s \in Slots : GrantsStore(s)
    \/ \E s \in Slots : GrantsRefuse(s)
    \/ \E s \in Slots : GrantsFail(s)
    \/ Callback
    \/ \E s \in Slots : QrCode(s)
    \/ \E s \in Slots : QrVerify(s)
    \/ LedgerTick

SpecCustomer == CustomerInit /\ [][CustomerNext]_vars

\* the vendor-facing server: the payment sessions
SessionNext ==
    \/ \E s \in Slots : StartPaymentSession(s)
    \/ \E s \in Slots : ApproveBegin(s)
    \/ \E s \in Slots : ApproveContinue(s)
    \/ \E s \in Slots : ApproveCreate(s)
    \/ \E s \in Slots : ApproveFinish(s)
    \/ \E s \in Slots : ApproveFail(s)
    \/ SessionTick

SpecSession == Init /\ [][SessionNext]_vars

\* the instant-pay class
InstantPayNext ==
    \/ SetupInstantPay
    \/ CompleteInstantPaySetup
    \/ InstantTick

SpecInstantPay == Init /\ [][InstantPayNext]_vars

\* the transfers that take a stored token: OpenPayments.makeInstantPayment and
\* processSubscriptionPayment, called any number of times
InstantPaymentNext ==
    \/ MakeInstantPayment
    \/ ProcessSubscriptionPayment
    \/ InstantTick

SpecInstantPayment == Init /\ [][InstantPaymentNext]_vars

\* the requests a transfer makes, as a function of what it is given
TransferNext ==
    \/ ProcessPaymentRequests
    \/ MakeInstantPaymentRequests

SpecTransfer == Init /\ [][TransferNext]_vars

\* the requests for an interactive grant: /grants of the customer server and
\* setupInstantPay
InteractiveNext ==
    \/ \E s \in Slots : CreateCustomer(s)
    \/ \E s \in Slots : GrantsBegin(s)
    \/ \E s \in Slots : GrantsStore(s)
    \/ \E s \in Slots : GrantsRefuse(s)
    \/ \E s \in Slots : GrantsFail(s)
    \/ Callback
    \/ SetupInstantPay

SpecInteractive == CustomerInit /\ [][InteractiveNext]_vars

\* ------------------------------------------------------------------ claims
GrantOf(t) == grants[CHOOSE i \in Indices : grants[i].token = t]

Payments == 1..Len(outgoingPayments)

RECURSIVE SettledUpTo(_, _)
\* the sum of the amounts of the first k outgoing payments made against token t
SettledUpTo(t, k) ==
    IF k = 0 THEN 0
    ELSE SettledUpTo(t, k - 1)
            + (IF outgoingPayments[k].grant = t THEN outgoingPayments[k].amount ELSE 0)

Settled(t) == SettledUpTo(t, Len(outgoingPayments))

\* the slot that serves the next request
TakenSlot == IF Free("s1") THEN "s1" ELSE "s2"

ExpectedHash(entry, interactRef) ==
    Sha256Base64(InteractionData(entry.clientNonce, entry.interactNonce, interactRef,
                                 AuthServerOf(entry.walletAddressUrl)))

\* C1: every grant record has 0 <= spentToday <= dailyLimit in every reachable
\* state.
C1_SpentWithinLimit ==
    \A i \in Indices :
        0 <= grants[i].spentToday /\ grants[i].spentToday <= grants[i].dailyLimit

\* C2: no outgoing payment is created for a transfer whose amount makes
\* spentToday + amount exceed the dailyLimit of its grant (stated for the grants
\* with a positive limit).
C2_OverLimitCreatesNoPayment ==
    \A k \in Payments :
        LET p == outgoingPayments[k]
            g == GrantOf(p.grant)
        IN  g.dailyLimit > 0 => g.spentToday + p.amount <= g.dailyLimit

\* C3: spentToday of a grant is the sum of the amounts of the outgoing payments
\* created against it: every settlement adds its amount.
C3_SettlementAddsAmount ==
    \A i \in Indices : grants[i].spentToday = Settled(grants[i].token)

\* C4: two transfers in flight against the same grant, each within what is left
\* of the limit but exceeding it together, do not both get their outgoing
\* payment created.
C4_ConcurrentTransfersNotBothAccepted ==
    ~ /\ \A s \in Slots : slots[s].kind = "pay" /\ slots[s].pc = "created"
      /\ slots["s1"].token = slots["s2"].token
      /\ LET g == GrantOf(slots["s1"].token)
         IN  /\ g.spentToday + slots["s1"].amount <= g.dailyLimit
             /\ g.spentToday + slots["s2"].amount <= g.dailyLimit
             /\ g.spentToday + slots["s1"].amount + slots["s2"].amount > g.dailyLimit

\* C5: no two grants with status active have the same customerId and vendorId.
C5_OneActiveGrantPerPair ==
    \A i \in Indices, j \in Indices :
        (i < j /\ grants[i].status = "active" /\ grants[j].status = "active")
            => ~(grants[i].customerId = grants[j].customerId
                    /\ grants[i].vendorId = grants[j].vendorId)

\* C6: no outgoing payment is created for a payment request received when the
\* expiresAt of its grant was in the past.
C6_ExpiredGrantCreatesNoPayment ==
    \A k \in Payments :
        ~(GrantOf(outgoingPayments[k].grant).expiresAt < outgoingPayments[k].receivedAt)

\* C7: every grant.continue call made, with its continuation token and
\* interaction reference, was preceded by a successful verification of the
\* interaction hash for that token and reference.
C7_ContinueOnlyAfterVerification == continueCalls \subseteq verifiedCalls

\* C8: a completeInstantPaySetup call for cached data, with a hash that differs
\* from the hash of the cached client nonce, the cached interact nonce, the given
\* interaction reference and the authorization server on record, ends in an
\* error raised before grant.continue, makes no grant.continue call and leaves
\* the cache as it was.
C8_MismatchAbortsBeforeContinue ==
    [][(/\ served' = served + 1
        /\ result'.op = "complete"
        /\ CacheGet(result'.identifier) # NoEntry
        /\ result'.hash # ExpectedHash(CacheGet(result'.identifier), result'.ref))
       => (/\ result'.outcome \in {"Hash verification failed", "WalletLookupFailed"}
           /\ continueCalls' = continueCalls
           /\ verifiedCalls' = verifiedCalls
           /\ cache' = cache)]_vars

\* C8 witness: a call for cached data was refused for its hash, and no
\* grant.continue call has been made.
C8_Witness ==
    /\ result.op = "complete"
    /\ result.outcome = "Hash verification failed"
    /\ CacheGet(result.identifier) # NoEntry
    /\ result.hash # ExpectedHash(cache[result.identifier], result.ref)
    /\ continueCalls = {}

\* C9: once the wallet lookup has returned, the verification succeeds exactly
\* when the received hash is the hash of (clientNonce, interactNonce,
\* interactRef, authServer); the hash of one tuple is refused for any tuple that
\* differs from it in one of the four inputs.
C9_VerifiesIffHashMatches ==
    /\ (result.op = "complete" /\ result.outcome \notin {"TypeError", "WalletLookupFailed"})
        => ((result.outcome # "Hash verification failed")
                <=> (result.hash = ExpectedHash(cache[result.identifier], result.ref)))
    /\ \A c \in NonceInputs, i \in NonceInputs, r \in InteractRefInputs, a \in AuthServers :
        LET h == Sha256Base64(InteractionData(c, i, r, a))
        IN  /\ verifyInteractionHash(h, c, i, r, a)
            /\ \A c2 \in NonceInputs \ {c} : ~verifyInteractionHash(h, c2, i, r, a)
            /\ \A i2 \in NonceInputs \ {i} : ~verifyInteractionHash(h, c, i2, r, a)
            /\ \A r2 \in InteractRefInputs \ {r} : ~verifyInteractionHash(h, c, i, r2, a)
            /\ \A a2 \in AuthServers \ {a} : ~verifyInteractionHash(h, c, i, r, a2)

\* C9 witness: a verification has succeeded and the grant was continued.
C9_Witness ==
    /\ result.op = "complete"
    /\ result.outcome = "TokenInfo"
    /\ result.hash = ExpectedHash(cache[result.identifier], result.ref)

C11_OnePaymentPerSessionQuote ==
    \A k \in Payments, l \in Payments :
        (k < l /\ outgoingPayments[k].quoteId # 0)
            => outgoingPayments[k].quoteId # outgoingPayments[l].quoteId

\* C12: an approve-payment request received for a session whose grantExpiry
\* has passed is answered 400 "Quote grant expired, please restart payment";
\* it continues no grant and creates no outgoing payment.
C12_ExpiredSessionRejected ==
    [][(/\ served' = served + 1
        /\ slots'[TakenSlot].kind = "approve"
        /\ slots'[TakenSlot].sid # ""
        /\ quoteCache[slots'[TakenSlot].sid] # NoSession
        /\ quoteCache[slots'[TakenSlot].sid].grantExpiry < now)
       => (/\ slots'[TakenSlot].pc = "done"
           /\ slots'[TakenSlot].status = 400
           /\ slots'[TakenSlot].error = "Quote grant expired, please restart payment"
           /\ continueCalls' = continueCalls
           /\ outgoingPayments' = outgoingPayments)]_vars

\* C12 witness: a session that was started has expired and an approve-payment
\* for it was refused for its expiry, the session still being cached.
C12_Witness ==
    \E s \in Slots :
        /\ slots[s].kind = "approve" /\ slots[s].pc = "done"
        /\ slots[s].error = "Quote grant expired, please restart payment"
        /\ quoteCache[slots[s].sid] # NoSession
        /\ quoteCache[slots[s].sid].grantExpiry < now


\* the bundles the server has issued, as issued
IssuedBundles == {QrBundle(data) : data \in signed}

\* the part of a bundle the signature is made of
BundleData(b) ==
    [customerId |-> b.customerId, grants |-> b.grants, generatedAt |-> b.generatedAt]

\* C13: every bundle the server generated verifies when it is presented
\* unmodified: verifyQRSignature is true of it, and a verification that was
\* given it returned its grants.
C13_IssuedBundleVerifies ==
    /\ \A data \in signed : verifyQRSignature(QrBundle(data))
    /\ verification.qrData \in IssuedBundles
            => verification.grants = verification.qrData.grants

\* an issued bundle was presented unmodified and its grants came back
C13_Witness ==
    /\ verification.qrData \in IssuedBundles
    /\ verification.grants # <<>>
    /\ \E s \in Slots : slots[s].kind = "verify" /\ slots[s].status = 200

\* C14: a verification request presenting a bundle that is not a bundle as the
\* server issued it (its customerId, a grant summary field, its grant list, its
\* generatedAt or its signature differs) is answered 400 'Invalid QR code
\* signature' and returns none of the bundle's grants.
C14_ModifiedBundleRejected ==
    [][(/\ served' = served + 1
        /\ slots'[TakenSlot].kind = "verify"
        /\ verification'.qrData # NoBundle
        /\ verification'.qrData \notin IssuedBundles)
       => (/\ slots'[TakenSlot].status = 400
           /\ slots'[TakenSlot].error = "Invalid QR code signature"
           /\ verification'.grants = <<>>)]_vars

\* a bundle whose signed content was changed was presented and refused
C14_Witness ==
    /\ verification.qrData # NoBundle
    /\ BundleData(verification.qrData) \notin signed
    /\ verification.grants = <<>>
    /\ \E s \in Slots :
        /\ slots[s].kind = "verify"
        /\ slots[s].error = "Invalid QR code signature"

\* C15: when a bundle is generated for a customer, its grant list names exactly
\* the stored grants of that customer that are active, expire after the
\* generation time and have a recorded interactRef.
C15_BundleListsAuthorizedGrants ==
    [][\A data \in signed' \ signed :
        /\ data.generatedAt = now
        /\ {data.grants[i].grantId : i \in 1..Len(data.grants)}
            = {grants[i].id : i \in
                {j \in Indices : /\ grants[j].customerId = data.customerId
                                 /\ grants[j].status = "active"
                                 /\ grants[j].expiresAt > data.generatedAt
                                 /\ grants[j].interactRef # NoRef}}
        /\ \A i \in 1..Len(data.grants) :
            \E j \in Indices : data.grants[i] = GrantSummary(grants[j])]_vars

\* a bundle was generated for a customer who also has a grant that is still
\* awaiting interaction
C15_Witness ==
    \E data \in signed :
        /\ Len(data.grants) = 1
        /\ \E j \in Indices :
            /\ grants[j].customerId = data.customerId
            /\ grants[j].interactRef = NoRef
            /\ grants[j].id # data.grants[1].grantId

\* C16: when an interactive grant is requested and the authorization server
\* answers with a grant that is not pending, the request fails: /grants answers
\* 500 and stores no grant, setupInstantPay throws, caches nothing and returns
\* no redirect URL.
C16_DirectGrantRefused ==
    [][/\ \A s \in Slots :
            (slots'[s].grant = "direct" /\ slots[s].grant # "direct")
                => (/\ slots'[s].status = 500
                    /\ slots'[s].error = "Failed to create grant"
                    /\ grants' = grants)
       /\ (served' = served + 1 /\ slots' = slots /\ result'.grant = "direct")
                => (/\ result'.outcome = "Expected interactive grant for instant-pay setup"
                    /\ result'.identifier = ""
                    /\ cache' = cache)]_vars

\* both kinds of request have been answered with a direct grant
C16_Witness ==
    /\ \E s \in Slots : slots[s].kind = "grants" /\ slots[s].grant = "direct"
    /\ result.op = "setup" /\ result.grant = "direct"

\* C17: when the grant request of an incoming payment or of a quote is answered
\* with a pending grant, the request ends there: it is answered 500, the step
\* of the pending answer is the last step it ran (the resource the grant was
\* for and every later resource are not created), and no session is saved.
C17_PendingGrantEndsTransfer ==
    [][\A s \in Slots :
        (/\ slots'[s] # slots[s]
         /\ slots'[s].kind = "start"
         /\ \E i \in 1..Len(slots'[s].steps) :
                slots'[s].steps[i].step = "grant" /\ slots'[s].steps[i].answer = "pending")
        => (/\ slots'[s].steps[Len(slots'[s].steps)].step = "grant"
            /\ slots'[s].steps[Len(slots'[s].steps)].answer = "pending"
            /\ \A i \in 1..(Len(slots'[s].steps) - 1) : slots'[s].steps[i].answer # "pending"
            /\ slots'[s].status = 500
            /\ slots'[s].error = "Failed to start payment session"
            /\ quoteCache' = quoteCache)]_vars

\* the quote's grant request was answered pending after the incoming payment
\* had been created
C17_Witness ==
    \E s \in Slots :
        /\ slots[s].kind = "start"
        /\ Len(slots[s].steps) = 3
        /\ slots[s].steps[3] = GrantStep("quote", "pending")

\* C18: every outgoing payment is created in a transfer that created an incoming
\* payment and then a quote before it.
C18_QuoteBeforeOutgoingPayment ==
    \A k \in Payments :
        \E i, j \in 1..Len(outgoingPayments[k].steps) :
            /\ i < j
            /\ outgoingPayments[k].steps[i] = CreateStep("incoming-payment")
            /\ outgoingPayments[k].steps[j] = CreateStep("quote")

\* C19: a call that fails with the limit-exceeded error failed because the
\* resource server refused the debit as over the limit.
C19_LimitExceededOnlyForLimit ==
    (result.op = "pay" /\ result.outcome = LimitExceeded) => result.cause = "limit"

\* C20: every outgoing payment of a process-payment request is created with
\* the access token of the grant that request continued.
C20_PaymentUsesOwnGrantToken ==
    \A k \in Payments :
        outgoingPayments[k].accessToken = AccessToken(outgoingPayments[k].grant)

\* C21: a grant carries an interaction reference only when the interaction the
\* user approved was its own.
C21_CallbackMarksApprovedGrant ==
    \A i \in Indices : grants[i].interactRef # NoRef => grants[i].approved

\* C22: every outgoing payment is created in a transfer that obtained its token
\* before, by token.rotate or by grant.continue.
C22_TokenObtainedInTransfer ==
    \A k \in Payments :
        \E i \in 1..Len(outgoingPayments[k].steps) :
            outgoingPayments[k].steps[i].type = "token"

\* C23: the grant summaries of every bundle the server signed are in ascending
\* order of grantId.
C23_BundleOrderedByGrantId ==
    \A data \in signed :
        \A i, j \in 1..Len(data.grants) :
            i < j => data.grants[i].grantId < data.grants[j].grantId

\* a call of the run did not proceed: it threw, or its answer made the function throw
Failed(run) ==
    \E i \in 1..Len(run) : run[i].answer \notin {"returned", "direct"}

\* C24: in every call of makeInstantPayment and processSubscriptionPayment no
\* external call is made twice, a call that fails (token.rotate included) is
\* the last call made, and the function then throws and creates no outgoing
\* payment.
C24_NoRetryFailureEndsTransfer ==
    [][(served' = served + 1 /\ result'.op \in {"pay", "subscription"})
       => LET run == result'.steps
          IN  /\ \A i, j \in 1..Len(run) :
                    i < j => [run[i] EXCEPT !.answer = "none"] # [run[j] EXCEPT !.answer = "none"]
              /\ \A i \in 1..(Len(run) - 1) : run[i].answer \in {"returned", "direct"}
              /\ Failed(run) => (/\ result'.outcome # "paid"
                                 /\ outgoingPayments' = outgoingPayments)]_vars

\* token.rotate failed in a transfer, which ended there
C24_Witness ==
    /\ result.op \in {"pay", "subscription"}
    /\ Len(result.steps) > 0
    /\ result.steps[Len(result.steps)].step = "rotate"
    /\ result.steps[Len(result.steps)].answer \in {"no token", "threw"}
    /\ result.outcome # "paid"

\* C25: a request for a grant whose grant request to the authorization server
\* throws or times out is answered 500 and leaves the grants store as it was:
\* no grant is stored, none is changed.
C25_FailedGrantRequestStoresNothing ==
    [][\A s \in Slots :
        (slots'[s].grant = "threw" /\ slots[s].grant # "threw")
            => (/\ slots'[s].status = 500
                /\ slots'[s].error \in {"Failed to create grant", "Failed to authorize vendor"}
                /\ grants' = grants)]_vars

\* a grant request failed with nothing stored, and the same request made
\* again at the same time was stored
C25_Witness ==
    \E s \in Slots, r \in Slots :
        /\ slots[s].kind = "grants" /\ slots[s].grant = "threw"
        /\ slots[r].kind = "grants" /\ slots[r].status = 201
        /\ Len(grants) = 1

\* C26: every grant.continue call carries an interaction reference.
C26_ContinueCarriesInteractRef ==
    \A call \in continueCalls : call[2] # NoRef

\* the last transfer made this call, and the call returned
Made(call) == \E i \in 1..Len(transfer.requests) : transfer.requests[i].call = call

\* the request of this call in the last transfer
RequestOf(call) ==
    transfer.requests[CHOOSE i \in 1..Len(transfer.requests) : transfer.requests[i].call = call]

\* C27: the incoming payment of every transfer is created with incomingAmount
\* equal to the amount times 10 to the power of the receiver wallet's
\* assetScale, in that wallet's scale.
C27_IncomingAmountScaled ==
    Made("incomingPayment.create")
        => /\ RequestOf("incomingPayment.create").value
                = ToString(transfer.amount * Pow10(AssetScaleOf(transfer.receiver)))
           /\ RequestOf("incomingPayment.create").assetScale = AssetScaleOf(transfer.receiver)

\* C28: the incoming-payment grant of every transfer is requested from the
\* receiver wallet's authorization server and the incoming payment is created
\* at the receiver wallet's resource server.
C28_IncomingPaymentAtReceiverServers ==
    /\ Made("grant.request:incoming-payment")
        => RequestOf("grant.request:incoming-payment").url
                = WalletDetails(transfer.receiver).authServer
    /\ Made("incomingPayment.create")
        => RequestOf("incomingPayment.create").url
                = WalletDetails(transfer.receiver).resourceServer

\* C29: the quote of every transfer that asks for one is requested with a grant
\* of the sender's authorization server, against the sender's wallet, for the
\* incoming payment of the transfer.
C29_QuoteAgainstSenderWallet ==
    /\ Made("grant.request:quote")
        => RequestOf("grant.request:quote").url = WalletDetails(transfer.sender).authServer
    /\ Made("quote.create")
        => /\ RequestOf("quote.create").url = WalletDetails(transfer.sender).resourceServer
           /\ RequestOf("quote.create").walletAddress = WalletDetails(transfer.sender).id
           /\ RequestOf("quote.create").receiver
                = IncomingPaymentId(RequestOf("incomingPayment.create").walletAddress)

\* the outcomes of completeInstantPaySetup in which grant.continue was called
ContinueOutcomes == {"TokenInfo", "Expected grant response", "ContinueFailed"}

\* C30: a cached pending instant-pay grant is completed at most once: once
\* completeInstantPaySetup has returned the token of an identifier, the next
\* completion with the same identifier fails without calling grant.continue
C30_PendingGrantCompletedOnce ==
    [][(/\ result.op = "complete"
        /\ result.outcome = "TokenInfo"
        /\ served' = served + 1
        /\ result'.op = "complete"
        /\ result'.identifier = result.identifier)
            => result'.outcome \notin ContinueOutcomes]_vars

\* the error kinds of a session that is not cached or has expired
SessionErrors == {"SessionNotFoundError", "SessionExpiredError"}

\* C31: completeInstantPaySetup with an identifier that was never cached or
\* whose time to live has lapsed fails with a session-not-found or
\* session-expired error, without verification and without grant.continue
C31_MissingSessionFailsAsSessionError ==
    [][(/\ served' = served + 1
        /\ result'.op = "complete"
        /\ CacheGet(result'.identifier) = NoEntry)
            => /\ result'.outcome \in SessionErrors
               /\ verifiedCalls' = verifiedCalls
               /\ continueCalls' = continueCalls]_vars

\* C32: a payment session is removed from the session store by its completion
\* or, once its expiry has passed, by being discarded: the request that finds
\* the session expired leaves no session stored under its clientSessionId
C32_ExpiredSessionDiscarded ==
    [][(/\ served' = served + 1
        /\ slots'[TakenSlot].kind = "approve"
        /\ slots'[TakenSlot].error = "Quote grant expired, please restart payment")
            => quoteCache'[slots'[TakenSlot].sid] = NoSession]_vars

\* C33: a grant whose expiresAt is earlier than the current time is marked
\* 'expired' and does not stay 'active': a /grants request, which decides by
\* the status of the stored grants, leaves every grant that had passed its
\* expiry when the request was received marked 'expired'
C33_ExpiredGrantMarkedExpired ==
    [][(/\ served' = served + 1
        /\ slots'[TakenSlot].kind = "grants")
            => \A i \in Indices :
                grants[i].expiresAt < now => grants'[i].status = "expired"]_vars

\* C34: a request with a missing required field is answered 400 without an
\* external call and with the stores unchanged: a /grants request of an
\* existing customer (one not answered "Customer not found") that names no
\* vendorId is refused with status 400 in the step that receives it
C34_MissingFieldAnswered400 ==
    [][(/\ served' = served + 1
        /\ slots'[TakenSlot].kind = "grants"
        /\ slots'[TakenSlot].pc = "done"
        /\ slots'[TakenSlot].error # "Customer not found"
        /\ slots'[TakenSlot].vendorId = "")
            => /\ slots'[TakenSlot].status = 400
               /\ UNCHANGED <<customers, grants, quoteCache>>]_vars

\* the steps of a start-payment-session request created both its incoming
\* payment and its quote
BothCreated(steps) ==
    /\ \E i \in 1..Len(steps) : steps[i] = CreateStep("incoming-payment")
    /\ \E i \in 1..Len(steps) : steps[i] = CreateStep("quote")

\* C35: start-payment-session stores a session only after both the incoming
\* payment and the quote have been created; when either step fails the request
\* is answered 500 and the session store is unchanged.
C35_SessionStoredAfterBothCreated ==
    [][(/\ served' = served + 1
        /\ slots'[TakenSlot].kind = "start")
            => /\ quoteCache' # quoteCache
                    => /\ BothCreated(slots'[TakenSlot].steps)
                       /\ slots'[TakenSlot].status = 200
               /\ (slots'[TakenSlot].status # 400 /\ ~BothCreated(slots'[TakenSlot].steps))
                    => /\ slots'[TakenSlot].status = 500
                       /\ slots'[TakenSlot].error = "Failed to start payment session"
                       /\ quoteCache' = quoteCache]_vars

\* C35 witness: a start-payment-session request failed at its quote after its
\* incoming payment had been created, and no session is stored
C35_Witness ==
    /\ \E s \in Slots :
        /\ slots[s].kind = "start"
        /\ slots[s].status = 500
        /\ \E i \in 1..Len(slots[s].steps) : slots[s].steps[i] = CreateStep("incoming-payment")
    /\ \A sid \in DOMAIN quoteCache : quoteCache[sid] = NoSession

\* an approve-payment request in slot s that found its session and is awaiting
\* grant.continue or outgoingPayment.create
Approving(s) == slots[s].kind = "approve" /\ slots[s].pc \in {"continue", "create"}

\* C36: when approve-payment has found a valid unexpired session and the grant
\* continuation or the creation of the outgoing payment fails, the request is
\* answered 500 and the session store is unchanged; an approve-payment received
\* afterwards for the same session, still stored and unexpired, is accepted.
C36_FailedApproveKeepsSession ==
    [][/\ \A s \in Slots :
            (Approving(s) /\ slots'[s].pc = "done" /\ slots'[s].status # 200)
                => /\ slots'[s].status = 500
                   /\ slots'[s].error = "Failed to approve payment"
                   /\ quoteCache' = quoteCache
                   /\ outgoingPayments' = outgoingPayments
       /\ \A s \in Slots :
            (/\ served' = served + 1
             /\ slots[s].kind = "approve" /\ slots[s].status = 500
             /\ slots'[TakenSlot].kind = "approve"
             /\ slots'[TakenSlot].sid = slots[s].sid
             /\ slots[s].sid # ""
             /\ quoteCache[slots[s].sid] # NoSession
             /\ ~(quoteCache[slots[s].sid].grantExpiry < now))
                => slots'[TakenSlot].pc = "continue"]_vars

\* C36 witness: the only session started is a; an approve-payment for it
\* continued its grant and failed without an outgoing payment, and a second
\* approve-payment for a has been accepted
C36_Witness ==
    /\ slots["s2"] = Idle
    /\ slots["s1"].kind = "approve" /\ slots["s1"].pc = "continue" /\ slots["s1"].sid = "a"
    /\ continueCalls # {}
    /\ outgoingPayments = <<>>
    /\ quoteCache["a"] # NoSession /\ quoteCache["b"] = NoSession

\* C37: a callback whose result is not 'grant_approved' is answered 400 and
\* leaves every grant record unchanged; no grant gains an interaction reference.
C37_RejectedCallbackChangesNothing ==
    [][(callback' # callback /\ callback'.result # "grant_approved")
            => /\ callback'.status = 400
               /\ grants' = grants]_vars

\* C37 witness: a callback with result 'grant_rejected' was answered 400 while
\* a grant without an interaction reference was stored
C37_Witness ==
    /\ callback = [result |-> "grant_rejected", status |-> 400]
    /\ \E i \in Indices : grants[i].interactRef = NoRef

\* the fields of a stored grant other than its interaction reference
OtherFields(g) == [g EXCEPT !.interactRef = NoRef, !.approved = FALSE]

\* C38: a recorded interaction reference is never overwritten or cleared; a
\* callback (the step that answers without a request slot or the clock moving)
\* sets the interaction reference of at most one grant, one that had none, and
\* changes no other field of any grant.
C38_InteractRefWrittenOnce ==
    [][/\ \A i \in Indices :
            grants[i].interactRef # NoRef
                => i <= Len(grants') /\ grants'[i].interactRef = grants[i].interactRef
       /\ (slots' = slots /\ now' = now /\ served' = served)
            => /\ Len(grants') = Len(grants)
               /\ \A i \in Indices : OtherFields(grants'[i]) = OtherFields(grants[i])
               /\ \A i, j \in Indices :
                    (/\ grants'[i].interactRef # grants[i].interactRef
                     /\ grants'[j].interactRef # grants[j].interactRef) => i = j]_vars

\* C38 witness: of two stored grants, an approved callback has set the
\* interaction reference of one and left the other without
C38_Witness ==
    /\ callback.status = 200
    /\ \E i, j \in Indices :
        /\ grants[i].interactRef # NoRef
        /\ grants[j].interactRef = NoRef

\* a process-payment request that named no customerWalletAddress
OmitsCustomerWallet == transfer.path = "process-payment" /\ transfer.sender = ""

\* the incoming payment and the quote of the last transfer were created, both
\* against the receiver's wallet
CreatedAgainstReceiver ==
    /\ Made("incomingPayment.create")
    /\ RequestOf("incomingPayment.create").walletAddress
            = WalletDetails(transfer.receiver).id
    /\ Made("quote.create")
    /\ RequestOf("quote.create").walletAddress = WalletDetails(transfer.receiver).id

\* C39 as stated: a process-payment request that omits customerWalletAddress and
\* carries the required fields ends with status 500, never with an outgoing
\* payment, and only after an incoming payment and a quote have been created
\* against the receiver's wallet.
C39_OmittedWalletFailsAfterCreations ==
    (OmitsCustomerWallet /\ transfer.status # 400)
        => /\ transfer.status = 500
           /\ ~Made("outgoingPayment.create")
           /\ CreatedAgainstReceiver

\* C39 amended: such a request is not rejected by validation, ends with status
\* 500 and never with an outgoing payment; when none of its awaited calls
\* throws, the incoming payment and the quote have been created against the
\* receiver's wallet by then.
C39_OmittedWalletFails ==
    (OmitsCustomerWallet /\ transfer.status # 400)
        => /\ transfer.status = 500
           /\ ~Made("outgoingPayment.create")
           /\ ~transfer.threw => CreatedAgainstReceiver

\* C39 witness: a request without customerWalletAddress whose calls all
\* returned ended with 500 after its incoming payment and quote were created
C39_Witness ==
    /\ OmitsCustomerWallet
    /\ transfer.status = 500 /\ ~transfer.threw
    /\ CreatedAgainstReceiver

\* the customer has a grant that is active, unexpired and interaction-completed
Eligible(customerId) ==
    \E i \in Indices :
        /\ grants[i].customerId = customerId
        /\ grants[i].status = "active"
        /\ grants[i].expiresAt > now
        /\ grants[i].interactRef # NoRef

\* C40: a qr-code request for an unknown customer is answered 404, and one for
\* an existing customer with no eligible grant is answered 400; neither issues
\* a bundle or a signature.  A request for a customer with an eligible grant is
\* not refused this way.
C40_NoEligibleGrantNoBundle ==
    [][(/\ served' = served + 1
        /\ slots'[TakenSlot].kind = "qr")
            => /\ signed' # signed
                    => \E data \in signed' \ signed :
                            data.customerId \in customers /\ Eligible(data.customerId)
               /\ slots'[TakenSlot].status = 404
                    <=> (/\ signed' = signed
                         /\ slots'[TakenSlot].customerId \notin customers
                         /\ slots'[TakenSlot].customerId # "")
               /\ slots'[TakenSlot].status = 400
                    <=> (/\ signed' = signed
                         /\ slots'[TakenSlot].customerId \in customers
                         /\ ~Eligible(slots'[TakenSlot].customerId))]_vars

\* C40 witness: a qr-code request of an existing customer whose only grant
\* still awaits its interaction was answered 400, and no bundle was ever signed
C40_Witness ==
    /\ signed = {}
    /\ \E s \in Slots :
        /\ slots[s].kind = "qr" /\ slots[s].status = 400
        /\ slots[s].customerId \in customers
        /\ \E i \in Indices : grants[i].customerId = slots[s].customerId

====
